---- MODULE Spec2Model ----
(***************************************************************************)
(* A model of depr (src/src/main.rs): the lock file is read into lines,    *)
(* AllSpecs::from_lines extracts the "specs:" regions, the blame hunks are *)
(* sorted by their signature time, and run prints one block per hunk that  *)
(* overlaps a region.                                                      *)
(***************************************************************************)
EXTENDS Integers, Sequences, FiniteSets, TLC

\* ------------------------------------------------------------------ bounds
\* Spec: the lines of the lock file, the hunks of its blame, the timestamps.
MaxLines == 3
MaxHunks == 2
MaxSeconds == 2
\* SpecAny: the lines of the lock file.
MaxAnyLines == 6
\* TimeSpec: the days between the timestamp and the clock.
MaxDays == 2

\* program constants
SecsPerMinute == 60
SecsPerHour == 3600
SecsPerDay == 86400

\* ------------------------------------------------------------------ values
\* A line is its sequence of characters.
Marker == <<"s", "p", "e", "c", "s", ":">>
LineValues == { <<>>, <<" ", " ">> \o Marker, <<" ", " ", "f", "o", "o">> }
LineSeqs(max) == UNION { [1..n -> LineValues] : n \in 0..max }

\* Time zone offsets (minutes) a signature may carry.
Offsets == {0, 60}

None == <<>>
Some(v) == <<v>>

Max(a, b) == IF a >= b THEN a ELSE b
Min(a, b) == IF a <= b THEN a ELSE b

VARIABLES
  gemfile_lock_lines, \* the lock file's lines (run, line 106)
  blame,              \* the hunks as the blame iterator yields them
  now,                \* the wall clock: [secs, frac] (frac = 1: a sub-second part)
  all_specs,          \* AllSpecs.specs
  hunks,              \* the sorted hunk vector of run
  idx,                \* position of the for loop of run in hunks
  output,             \* the blocks printed so far
  pc,                 \* where run is
  seconds,            \* the argument of a lone time_passed call
  label               \* the result of a lone time_passed call

vars == <<gemfile_lock_lines, blame, now, all_specs, hunks, idx, output, pc,
          seconds, label>>

\* ------------------------------------------------------------------ str
contains(line, pat) ==
  \E k \in 0..(Len(line) - Len(pat)) : SubSeq(line, k + 1, k + Len(pat)) = pat

is_empty(line) == Len(line) = 0

\* ------------------------------------------------------------------ Specs
Specs_new(start_line, end_line) ==
  [start_line |-> start_line, end_line |-> end_line]

Specs_overlaps(self, start_line, end_line) ==
  IF start_line > self.end_line THEN FALSE
  ELSE IF end_line < self.start_line THEN FALSE
  ELSE TRUE

Specs_hunk_limits_union(self, start_line, end_line) ==
  <<Min(self.start_line, start_line), Max(self.end_line, end_line)>>

Specs_hunk_limits_hunk_end(self, start_line, end_line) ==
  <<Max(self.start_line, start_line), end_line>>

Specs_hunk_limits(self, start_line, end_line) ==
  LET start == Max(self.start_line, start_line)
      end == Min(self.end_line, end_line)
  IN <<start, end>>

\* ------------------------------------------------------------------ AllSpecs
\* The first if of the loop body: a marker line opens a region at the next line.
from_lines_mark_same_line(line, i, start_line) ==
  IF contains(line, Marker) THEN Some(i) ELSE start_line

from_lines_mark(line, i, start_line) ==
  IF contains(line, Marker) THEN Some(i + 1) ELSE start_line

\* The second if of the loop body: an empty line closes the open region.
from_lines_close_keep_open(line, i, specs, start_line) ==
  IF is_empty(line) /\ start_line # None
    THEN [specs |-> Append(specs, Specs_new(start_line[1], i)),
          start_line |-> start_line]
    ELSE [specs |-> specs, start_line |-> start_line]

from_lines_close(line, i, specs, start_line) ==
  IF is_empty(line) /\ start_line # None
    THEN [specs |-> Append(specs, Specs_new(start_line[1], i)),
          start_line |-> None]
    ELSE [specs |-> specs, start_line |-> start_line]

\* The for loop over lines.iter().enumerate(), from index i on (i is 0-based).
RECURSIVE from_lines_loop(_, _, _, _)
from_lines_loop(lines, i, specs, start_line) ==
  IF i >= Len(lines) THEN [specs |-> specs, start_line |-> start_line]
  ELSE LET line == lines[i + 1]
           marked == from_lines_mark(line, i, start_line)
           closed == from_lines_close(line, i, specs, marked)
       IN from_lines_loop(lines, i + 1, closed.specs, closed.start_line)

from_lines_close_at_eof(lines) ==
  LET r == from_lines_loop(lines, 0, <<>>, None)
  IN IF r.start_line # None
       THEN Append(r.specs, Specs_new(r.start_line[1], Len(lines)))
       ELSE r.specs

from_lines(lines) == from_lines_loop(lines, 0, <<>>, None).specs

AllSpecs_overlaps(specs, start_line, end_line) ==
  \E k \in 1..Len(specs) : Specs_overlaps(specs[k], start_line, end_line)

\* The for loop of AllSpecs::hunk_limits from the k-th region on.
RECURSIVE hunk_limits_loop(_, _, _, _, _, _)
hunk_limits_loop(specs, k, start_line, end_line, start, end) ==
  IF k > Len(specs) THEN <<start, end>>
  ELSE IF Specs_overlaps(specs[k], start_line, end_line)
    THEN LET se == Specs_hunk_limits(specs[k], start_line, end_line)
         IN hunk_limits_loop(specs, k + 1, start_line, end_line, se[1], se[2])
    ELSE hunk_limits_loop(specs, k + 1, start_line, end_line, start, end)

AllSpecs_hunk_limits_first(specs, start_line, end_line) ==
  IF AllSpecs_overlaps(specs, start_line, end_line)
    THEN LET k == CHOOSE j \in 1..Len(specs) :
                    /\ Specs_overlaps(specs[j], start_line, end_line)
                    /\ \A m \in 1..(j - 1) :
                         ~Specs_overlaps(specs[m], start_line, end_line)
         IN Specs_hunk_limits(specs[k], start_line, end_line)
    ELSE <<0, 0>>

AllSpecs_hunk_limits(specs, start_line, end_line) ==
  hunk_limits_loop(specs, 1, start_line, end_line, 0, 0)

\* ------------------------------------------------------------------ time
\* i64 division truncates toward zero.
i64_div(a, b) == IF a >= 0 THEN a \div b ELSE -((-a) \div b)

\* Duration::num_seconds of now - then: the whole seconds, truncated toward zero.
num_seconds(t, secs) ==
  LET floor == t.secs - secs
  IN IF floor < 0 /\ t.frac > 0 THEN floor + 1 ELSE floor

Label(n, unit) == [n |-> n, unit |-> unit]
JustNow == Label(0, "just now")

time_passed_hours_first(t, secs) ==
  LET duration == num_seconds(t, secs)
      days == i64_div(duration, SecsPerDay)
      hours == i64_div(duration, SecsPerHour)
      minutes == i64_div(duration, SecsPerMinute)
  IN IF hours > 0 THEN Label(hours, "hours ago")
     ELSE IF days > 0 THEN Label(days, "days ago")
     ELSE IF minutes > 0 THEN Label(minutes, "minutes ago")
     ELSE JustNow

time_passed(t, secs) ==
  LET duration == num_seconds(t, secs)
      days == i64_div(duration, SecsPerDay)
      hours == i64_div(duration, SecsPerHour)
      minutes == i64_div(duration, SecsPerMinute)
  IN IF days > 0 THEN Label(days, "days ago")
     ELSE IF hours > 0 THEN Label(hours, "hours ago")
     ELSE IF minutes > 0 THEN Label(minutes, "minutes ago")
     ELSE JustNow

\* "%B %d, %Y" keeps the calendar day of the timestamp and drops the time of day.
format_seconds(secs) == [day |-> secs \div SecsPerDay]

\* ------------------------------------------------------------------ hunks
Times == [seconds : 1..MaxSeconds, offset : Offsets]

Hunk(final_start_line, lines_in_hunk, when) ==
  [final_start_line |-> final_start_line, lines_in_hunk |-> lines_in_hunk,
   when |-> when]

\* The comparison of two signature times: by seconds, then by offset.
when_cmp_offset_first(a, b) ==
  IF a.offset < b.offset THEN "Less"
  ELSE IF a.offset > b.offset THEN "Greater"
  ELSE IF a.seconds < b.seconds THEN "Less"
  ELSE IF a.seconds > b.seconds THEN "Greater"
  ELSE "Equal"

when_cmp(a, b) ==
  IF a.seconds < b.seconds THEN "Less"
  ELSE IF a.seconds > b.seconds THEN "Greater"
  ELSE IF a.offset < b.offset THEN "Less"
  ELSE IF a.offset > b.offset THEN "Greater"
  ELSE "Equal"

\* h placed into the sorted s behind every element that is not greater (stable).
sort_insert(s, h) ==
  LET p == Cardinality({ j \in 1..Len(s) : when_cmp(s[j].when, h.when) # "Greater" })
  IN SubSeq(s, 1, p) \o <<h>> \o SubSeq(s, p + 1, Len(s))

RECURSIVE sort_by(_)
sort_by(v) ==
  IF v = <<>> THEN <<>>
  ELSE sort_insert(sort_by(SubSeq(v, 1, Len(v) - 1)), v[Len(v)])

\* ------------------------------------------------------------------ blame
\* A blame of a file of n lines: its hunks tile the lines, in file order. cuts
\* are the line indices (0-based) where a new hunk starts, besides 0.
HunkEnd(cuts, n, s) ==
  CHOOSE c \in cuts \cup {n} : c > s /\ \A d \in cuts \cup {n} : d > s => c <= d

HunkStart(cuts, j) ==
  CHOOSE s \in cuts \cup {0} : Cardinality({ c \in cuts \cup {0} : c < s }) = j - 1

Tiling(cuts, n, times) ==
  [j \in 1..(Cardinality(cuts) + 1) |->
     LET s == HunkStart(cuts, j)
     IN Hunk(s + 1, HunkEnd(cuts, n, s) - s, times[j])]

\* The blames of the lines: at most MaxHunks hunks, each with any time.
BlameOf(lines) ==
  IF Len(lines) = 0 THEN { <<>> }
  ELSE UNION { { Tiling(cuts, Len(lines), times) :
                   times \in [1..(Cardinality(cuts) + 1) -> Times] } :
               cuts \in { c \in SUBSET (1..(Len(lines) - 1)) :
                            Cardinality(c) + 1 <= MaxHunks } }

\* Any one hunk, whether or not a blame of the file could hold it: it may be
\* empty, start behind the last line or reach past it.
AnyHunks ==
  UNION { { Hunk(s + 1, c, [seconds |-> MaxSeconds, offset |-> 0]) :
              c \in 0..(MaxAnyLines + 1 - s) } : s \in 0..MaxAnyLines }

\* ------------------------------------------------------------------ run
StartNow == [secs |-> MaxSeconds + SecsPerDay, frac |-> 0]

InitRun ==
  /\ now = StartNow
  /\ all_specs = <<>>
  /\ hunks = <<>>
  /\ idx = 0
  /\ output = <<>>
  /\ pc = "start"
  /\ seconds = 0
  /\ label = JustNow

Init ==
  /\ gemfile_lock_lines \in LineSeqs(MaxLines)
  /\ blame \in BlameOf(gemfile_lock_lines)
  /\ InitRun

InitAny ==
  /\ gemfile_lock_lines \in LineSeqs(MaxAnyLines)
  /\ blame \in { <<h>> : h \in AnyHunks }
  /\ InitRun

\* lines 106-107: the lines are read and the regions extracted.
run_extract ==
  /\ pc = "start"
  /\ all_specs' = from_lines(gemfile_lock_lines)
  /\ pc' = "blame"
  /\ UNCHANGED <<gemfile_lock_lines, blame, now, hunks, idx, output, seconds, label>>

\* lines 111-113: the hunks are collected and sorted by time.
run_sort ==
  /\ pc = "blame"
  /\ hunks' = sort_by(blame)
  /\ idx' = 1
  /\ pc' = "loop"
  /\ UNCHANGED <<gemfile_lock_lines, blame, now, all_specs, output, seconds, label>>

hunk_start_line(hunk) == hunk.final_start_line - 1
hunk_end_line(hunk) == hunk_start_line(hunk) + hunk.lines_in_hunk

\* lines 115-129, a hunk that overlaps: the block is printed. The slice of line
\* 126 panics when its range is not inside the lines; the two header lines are
\* out by then. hunk is the position of the block's hunk in hunks (not printed).
run_print ==
  /\ pc = "loop"
  /\ idx <= Len(hunks)
  /\ LET hunk == hunks[idx]
         start_line == hunk_start_line(hunk)
         end_line == hunk_end_line(hunk)
     IN /\ AllSpecs_overlaps(all_specs, start_line, end_line)
        /\ LET se == AllSpecs_hunk_limits(all_specs, start_line, end_line)
               start == se[1]
               end == se[2]
               ok == start <= end /\ end <= Len(gemfile_lock_lines)
           IN /\ output' = Append(output,
                    [relative |-> time_passed(now, hunk.when.seconds),
                     date |-> format_seconds(hunk.when.seconds),
                     first |-> start + 1,
                     last |-> end,
                     text |-> IF ok THEN SubSeq(gemfile_lock_lines, start + 1, end)
                                    ELSE <<>>,
                     hunk |-> idx])
              /\ pc' = IF ok THEN "loop" ELSE "panicked"
              /\ idx' = IF ok THEN idx + 1 ELSE idx
  /\ UNCHANGED <<gemfile_lock_lines, blame, now, all_specs, hunks, seconds, label>>

\* lines 115-129, a hunk that overlaps no region: nothing is printed.
run_skip ==
  /\ pc = "loop"
  /\ idx <= Len(hunks)
  /\ ~AllSpecs_overlaps(all_specs, hunk_start_line(hunks[idx]), hunk_end_line(hunks[idx]))
  /\ idx' = idx + 1
  /\ UNCHANGED <<gemfile_lock_lines, blame, now, all_specs, hunks, output, pc,
                 seconds, label>>

\* line 132
run_done ==
  /\ pc = "loop"
  /\ idx > Len(hunks)
  /\ pc' = "done"
  /\ UNCHANGED <<gemfile_lock_lines, blame, now, all_specs, hunks, idx, output,
                 seconds, label>>

Next == run_extract \/ run_sort \/ run_print \/ run_skip \/ run_done

Spec == Init /\ [][Next]_vars

SpecAny == InitAny /\ [][Next]_vars

\* ------------------------------------------------------------------ time_passed alone
\* The ages tried: up to MaxDays days, at the hours, minutes and seconds around
\* the tier boundaries, in the past and in the future.
Ages ==
  { sign * (d * SecsPerDay + h * SecsPerHour + m * SecsPerMinute + s) :
      sign \in {-1, 1}, d \in 0..MaxDays, h \in {0, 1, 23}, m \in {0, 1, 30, 59},
      s \in {0, 1, 59} }

InitTime ==
  /\ gemfile_lock_lines = <<>>
  /\ blame = <<>>
  /\ all_specs = <<>>
  /\ hunks = <<>>
  /\ idx = 0
  /\ output = <<>>
  /\ pc = "time"
  /\ label = JustNow
  /\ seconds \in {0, SecsPerDay}
  /\ \E age \in Ages, frac \in {0, 1} : now = [secs |-> seconds + age, frac |-> frac]

time_call ==
  /\ pc = "time"
  /\ label' = time_passed(now, seconds)
  /\ pc' = "time_done"
  /\ UNCHANGED <<gemfile_lock_lines, blame, now, all_specs, hunks, idx, output, seconds>>

NextTime == time_call

TimeSpec == InitTime /\ [][NextTime]_vars

\* ------------------------------------------------------------------ claims
\* The regions have been extracted.
Extracted == pc \in {"blame", "loop", "done", "panicked"}

NumLines == Len(gemfile_lock_lines)
IsMarkerLine(i) == contains(gemfile_lock_lines[i + 1], Marker)
IsEmptyLine(i) == gemfile_lock_lines[i + 1] = <<>>
HasEmptyAfter(i) == \E e \in (i + 1)..(NumLines - 1) : IsEmptyLine(e)
FirstEmptyAfter(i) ==
  CHOOSE e \in (i + 1)..(NumLines - 1) :
    IsEmptyLine(e) /\ \A f \in (i + 1)..(e - 1) : ~IsEmptyLine(f)

\* The marker lines a later empty line follows, and those of them with no other
\* marker line before that empty line.
ClosedMarkers == { i \in 0..(NumLines - 1) : IsMarkerLine(i) /\ HasEmptyAfter(i) }
LastMarkers ==
  { i \in ClosedMarkers : \A j \in (i + 1)..(FirstEmptyAfter(i) - 1) : ~IsMarkerLine(j) }
\* The marker lines no empty line follows.
OpenMarkers == { i \in 0..(NumLines - 1) : IsMarkerLine(i) /\ ~HasEmptyAfter(i) }

Kth(S, k) == CHOOSE x \in S : Cardinality({ y \in S : y < x }) = k - 1
RegionsFor(markers) ==
  [k \in 1..Cardinality(markers) |->
     LET i == Kth(markers, k) IN [start_line |-> i + 1, end_line |-> FirstEmptyAfter(i)]]

\* The hunk range [hs, he) of a printed block, and of the k-th sorted hunk.
HS(k) == hunks[k].final_start_line - 1
HE(k) == HS(k) + hunks[k].lines_in_hunk
Blocks == { output[k] : k \in 1..Len(output) }
\* The half-open ranges [a, b) and [c, d) share a line index.
SharesLine(a, b, c, d) == \E n \in a..(b - 1) : c <= n /\ n < d
OverlapSet(k) ==
  { m \in 1..Len(all_specs) :
      ~(HS(k) > all_specs[m].end_line) /\ ~(HE(k) < all_specs[m].start_line) }

\* C1: no printed block is empty: the range (start, end) of every block has
\* start < end (printed as first = start + 1 <= last = end), so it holds a line.
C1_NoEmptyBlock == \A b \in Blocks : b.first <= b.last /\ Len(b.text) >= 1

\* C2: a hunk whose range [hs, he) shares no line index with any region
\* [start_line, end_line) prints nothing: every printed block's hunk shares a
\* line with some region.
C2_NoMatchSilence ==
  \A b \in Blocks :
    \E m \in 1..Len(all_specs) :
      SharesLine(HS(b.hunk), HE(b.hunk), all_specs[m].start_line, all_specs[m].end_line)

\* C3: the blocks are printed in non-decreasing order of their hunk's seconds.
C3_AscendingOrder ==
  \A j, k \in 1..Len(output) :
    j < k => hunks[output[j].hunk].when.seconds <= hunks[output[k].hunk].when.seconds

C3_Witness ==
  /\ pc = "done"
  /\ Len(output) = 2
  /\ Len(blame) = 2
  /\ blame[1].when.seconds > blame[2].when.seconds
  /\ hunks[output[1].hunk].when.seconds < hunks[output[2].hunk].when.seconds

\* C4: the regions are in file order and disjoint (an earlier region ends
\* strictly before a later one starts) and each has start_line <= end_line.
C4_RegionsDisjoint ==
  Extracted =>
    /\ \A j, k \in 1..Len(all_specs) :
         j < k => all_specs[j].end_line < all_specs[k].start_line
    /\ \A k \in 1..Len(all_specs) : all_specs[k].start_line <= all_specs[k].end_line

C4_Witness ==
  /\ Extracted
  /\ Len(all_specs) >= 2
  /\ all_specs[1].start_line < all_specs[1].end_line

\* C5: the clip of a hunk range against a region that overlaps it lies inside
\* the region and inside the hunk range, and the clip AllSpecs::hunk_limits
\* returns for an overlapping hunk lies inside the hunk range and inside one of
\* the regions.
C5_ClipContained ==
  Extracted =>
    \A h \in 1..Len(blame) :
      LET hs == hunk_start_line(blame[h])
          he == hunk_end_line(blame[h])
      IN /\ \A m \in 1..Len(all_specs) :
              Specs_overlaps(all_specs[m], hs, he) =>
                LET se == Specs_hunk_limits(all_specs[m], hs, he)
                IN /\ all_specs[m].start_line <= se[1] /\ se[1] <= se[2]
                   /\ se[2] <= all_specs[m].end_line
                   /\ hs <= se[1] /\ se[2] <= he
         /\ AllSpecs_overlaps(all_specs, hs, he) =>
              LET se == AllSpecs_hunk_limits(all_specs, hs, he)
              IN /\ hs <= se[1] /\ se[1] <= se[2] /\ se[2] <= he
                 /\ \E m \in 1..Len(all_specs) :
                      /\ all_specs[m].start_line <= se[1]
                      /\ se[2] <= all_specs[m].end_line

\* A printed block whose hunk starts before its region and ends behind it.
C5_Witness ==
  /\ pc = "done"
  /\ \E b \in Blocks :
       /\ HS(b.hunk) < b.first - 1
       /\ b.last < HE(b.hunk)
       /\ b.first <= b.last

\* C6 as stated: one region, in file order, for every marker line that a later
\* empty line follows, from the line after the marker to the first empty line
\* after it.
C6_OneRegionPerMarker == Extracted => all_specs = RegionsFor(ClosedMarkers)

\* C6 as amended: one region, in file order, for every marker line that a later
\* empty line follows with no other marker line in between, from the line after
\* the marker to the first empty line after it; no marker line, no region.
C6_OneRegionPerLastMarker ==
  Extracted =>
    /\ all_specs = RegionsFor(LastMarkers)
    /\ (\A i \in 0..(NumLines - 1) : ~IsMarkerLine(i)) => all_specs = <<>>

\* Two marker lines before the same empty line, and a region extracted.
C6_Witness ==
  /\ Extracted
  /\ Len(all_specs) >= 1
  /\ ClosedMarkers # LastMarkers

\* The whole seconds between the clock and the timestamp.
Age == num_seconds(now, seconds)

\* C7: time_passed reports days when a whole day has passed, else hours when a
\* whole hour has, else minutes when a whole minute has, else "just now", each
\* count the truncated quotient; 23 h 59 min is 23 hours, 24 h is 1 days, 90 min
\* is 1 hours and 0 s is just now.
C7_Tiering ==
  pc = "time_done" =>
    /\ label.unit = "days ago" <=> Age >= SecsPerDay
    /\ label.unit = "hours ago" <=> (SecsPerHour <= Age /\ Age < SecsPerDay)
    /\ label.unit = "minutes ago" <=> (SecsPerMinute <= Age /\ Age < SecsPerHour)
    /\ label.unit = "just now" <=> Age < SecsPerMinute
    /\ label.unit = "days ago" =>
         label.n * SecsPerDay <= Age /\ Age < (label.n + 1) * SecsPerDay
    /\ label.unit = "hours ago" =>
         label.n * SecsPerHour <= Age /\ Age < (label.n + 1) * SecsPerHour
    /\ label.unit = "minutes ago" =>
         label.n * SecsPerMinute <= Age /\ Age < (label.n + 1) * SecsPerMinute
    /\ Age = 23 * SecsPerHour + 59 * SecsPerMinute => label = [n |-> 23, unit |-> "hours ago"]
    /\ Age = 24 * SecsPerHour => label = [n |-> 1, unit |-> "days ago"]
    /\ Age = 90 * SecsPerMinute => label = [n |-> 1, unit |-> "hours ago"]
    /\ Age = 0 => label = [n |-> 0, unit |-> "just now"]

C7_Witness ==
  /\ pc = "time_done"
  /\ Age = 24 * SecsPerHour
  /\ label = [n |-> 1, unit |-> "days ago"]

\* C8: a hunk prints at most one block, and the block's range is the clip of
\* the hunk against the last region in file order that overlaps it; its text is
\* the lines of that range only.
C8_LastMatch ==
  /\ \A j, k \in 1..Len(output) : output[j].hunk = output[k].hunk => j = k
  /\ pc # "panicked" =>
       \A b \in Blocks :
         /\ OverlapSet(b.hunk) # {}
         /\ LET m == CHOOSE x \in OverlapSet(b.hunk) : \A y \in OverlapSet(b.hunk) : y <= x
            IN /\ b.first - 1 = Max(all_specs[m].start_line, HS(b.hunk))
               /\ b.last = Min(all_specs[m].end_line, HE(b.hunk))
         /\ b.text = [n \in 1..(b.last - b.first + 1) |-> gemfile_lock_lines[b.first - 1 + n]]

\* A printed block whose hunk overlaps two regions with lines in both.
C8_Witness ==
  /\ pc = "done"
  /\ \E b \in Blocks :
       /\ Cardinality(OverlapSet(b.hunk)) >= 2
       /\ \A m \in OverlapSet(b.hunk) : all_specs[m].start_line < all_specs[m].end_line
       /\ Len(b.text) >= 1

\* C9: the range a block is sliced with lies inside the lines,
\* 0 <= start <= end <= number of lines, so the slice never panics.
C9_SliceInBounds ==
  /\ pc # "panicked"
  /\ \A b \in Blocks : 0 <= b.first - 1 /\ b.first - 1 <= b.last /\ b.last <= NumLines

\* A printed block whose hunk reaches past the last line.
C9_Witness ==
  /\ pc = "done"
  /\ \E b \in Blocks : HE(b.hunk) > NumLines /\ b.first <= b.last

\* C10: a marker line that no empty line follows yields no region: every
\* region ends at an existing empty line, none starts behind such a marker, and
\* a hunk that starts behind such a marker prints nothing.
C10_TrailingDiscarded ==
  Extracted =>
    /\ \A k \in 1..Len(all_specs) :
         /\ all_specs[k].end_line < NumLines
         /\ is_empty(gemfile_lock_lines[all_specs[k].end_line + 1])
    /\ \A i \in OpenMarkers :
         /\ \A k \in 1..Len(all_specs) : all_specs[k].start_line # i + 1
         /\ \A b \in Blocks : HS(b.hunk) <= i

\* A finished run over lines with a marker no empty line follows and a hunk
\* behind that marker, with another region extracted.
C10_Witness ==
  /\ pc = "done"
  /\ Len(all_specs) >= 1
  /\ \E i \in OpenMarkers : \E k \in 1..Len(hunks) : HS(k) > i

====
